---- MODULE Spec2Model ----
(***************************************************************************)
(* A model of hishel's cache Controller (src/hishel/_controller.py): the   *)
(* cacheability predicate, freshness and age, conditional requests, the    *)
(* decision to serve from cache and the 304 header merge.                  *)
(*                                                                         *)
(* Byte strings (Python bytes) are sequences of byte values, header lists  *)
(* are sequences of <<name, value>> pairs of byte strings.  The helpers of *)
(* hishel/_utils.py and hishel/_headers.py are not part of the sources at  *)
(* hand; they are modelled after sections 4.1 and 4.2 of the specification.*)
(***************************************************************************)
EXTENDS Integers, Sequences, FiniteSets, TLC

VARIABLES
    cacheable_methods,       \* self._cacheable_methods
    cacheable_status_codes,  \* self._cacheable_status_codes
    request,                 \* the Request instance: [method, headers]
    response,                \* the stored Response instance: [status, headers]
    new_response,            \* the Response of the revalidation: [status, headers]
    now,                     \* the clock time.time() reads, in ticks
    call,                    \* the Controller method called last ("none": none yet)
    ret,                     \* what that call returned or raised
    pre                      \* request, response and new_response as that call got them

vars == <<cacheable_methods, cacheable_status_codes, request, response,
          new_response, now, call, ret, pre>>

----------------------------------------------------------------------------
(* Values a call produces.  Every value has the same four fields so that  *)
(* any two of them can be compared.                                        *)

IntVal(n) == [kind |-> "int", ref |-> "", int |-> n, headers |-> <<>>]
NoneVal == [kind |-> "none", ref |-> "", int |-> 0, headers |-> <<>>]
BoolVal(b) == [kind |-> "bool", ref |-> IF b THEN "True" ELSE "False", int |-> 0, headers |-> <<>>]
\* a reference to one of the message instances: "request", "response", "new_response"
ObjectRef(r) == [kind |-> "object", ref |-> r, int |-> 0, headers |-> <<>>]
\* a reference to a class object, such as httpcore.Request itself
ClassRef(c) == [kind |-> "class", ref |-> c, int |-> 0, headers |-> <<>>]
ListVal(h) == [kind |-> "list", ref |-> "", int |-> 0, headers |-> h]
Raise(e) == [kind |-> "raise", ref |-> e, int |-> 0, headers |-> <<>>]
NoCall == [kind |-> "nothing", ref |-> "", int |-> 0, headers |-> <<>>]

IsTrue(v) == v.kind = "bool" /\ v.ref = "True"
IsFalse(v) == v.kind = "bool" /\ v.ref = "False"
Raised(v) == v.kind = "raise"

----------------------------------------------------------------------------
(* Byte strings.                                                           *)

\* bytes.lower(): ASCII upper-case letters become lower-case
LowerByte(b) == IF b >= 65 /\ b <= 90 THEN b + 32 ELSE b
Lower(s) == [i \in 1..Len(s) |-> LowerByte(s[i])]

\* the index of the first occurrence of byte c in s, 0 if there is none
RECURSIVE IndexFrom(_, _, _)
IndexFrom(s, c, i) ==
    IF i > Len(s) THEN 0
    ELSE IF s[i] = c THEN i
    ELSE IndexFrom(s, c, i + 1)
IndexOf(s, c) == IndexFrom(s, c, 1)

\* s.split(c)
RECURSIVE SplitOn(_, _)
SplitOn(s, c) ==
    LET i == IndexOf(s, c)
    IN IF i = 0 THEN <<s>>
       ELSE <<SubSeq(s, 1, i - 1)>> \o SplitOn(SubSeq(s, i + 1, Len(s)), c)

IsSpace(b) == b = 32 \/ b = 9

\* s.strip()
RECURSIVE LStrip(_)
LStrip(s) == IF s # <<>> /\ IsSpace(s[1]) THEN LStrip(Tail(s)) ELSE s
RECURSIVE RStrip(_)
RStrip(s) == IF s # <<>> /\ IsSpace(s[Len(s)]) THEN RStrip(SubSeq(s, 1, Len(s) - 1)) ELSE s
Strip(s) == RStrip(LStrip(s))

IsDigit(b) == b >= 48 /\ b <= 57
AllDigits(s) == s # <<>> /\ \A i \in 1..Len(s) : IsDigit(s[i])

\* the number a string of decimal digits denotes
RECURSIVE DigitsValue(_)
DigitsValue(s) ==
    IF s = <<>> THEN 0
    ELSE 10 * DigitsValue(SubSeq(s, 1, Len(s) - 1)) + (s[Len(s)] - 48)

\* int(s) succeeds on an optional sign followed by digits
IsInteger(s) ==
    \/ AllDigits(s)
    \/ s # <<>> /\ (s[1] = 45 \/ s[1] = 43) /\ AllDigits(Tail(s))
IntegerValue(s) ==
    IF s[1] = 45 THEN 0 - DigitsValue(Tail(s))
    ELSE IF s[1] = 43 THEN DigitsValue(Tail(s))
    ELSE DigitsValue(s)

\* the header names and tokens the code and the helpers name
B_cache_control == <<99, 97, 99, 104, 101, 45, 99, 111, 110, 116, 114, 111, 108>>
B_content_length == <<99, 111, 110, 116, 101, 110, 116, 45, 108, 101, 110, 103, 116, 104>>
B_expiers == <<101, 120, 112, 105, 101, 114, 115>>
B_expires == <<101, 120, 112, 105, 114, 101, 115>>
B_date == <<100, 97, 116, 101>>
B_last_modified == <<108, 97, 115, 116, 45, 109, 111, 100, 105, 102, 105, 101, 100>>
B_etag == <<101, 116, 97, 103>>
B_If_Unmodified_Since == <<73, 102, 45, 85, 110, 109, 111, 100, 105, 102, 105, 101, 100, 45, 83, 105, 110, 99, 101>>
B_If_None_Match == <<73, 102, 45, 78, 111, 110, 101, 45, 77, 97, 116, 99, 104>>
B_no_store == <<110, 111, 45, 115, 116, 111, 114, 101>>
B_no_cache == <<110, 111, 45, 99, 97, 99, 104, 101>>
B_public == <<112, 117, 98, 108, 105, 99>>
B_private == <<112, 114, 105, 118, 97, 116, 101>>
B_must_revalidate == <<109, 117, 115, 116, 45, 114, 101, 118, 97, 108, 105, 100, 97, 116, 101>>
B_max_age == <<109, 97, 120, 45, 97, 103, 101>>
B_GET == <<71, 69, 84>>

----------------------------------------------------------------------------
(* hishel/_utils.py, after section 4.1 of the specification.               *)

\* extract_header_values(headers, header_key, single): the values of the
\* headers whose name matches header_key case-insensitively, in order; with
\* single, at most the first
RECURSIVE extract_header_values_from(_, _, _)
extract_header_values_from(headers, header_key, i) ==
    IF i > Len(headers) THEN <<>>
    ELSE IF Lower(headers[i][1]) = Lower(header_key)
         THEN <<headers[i][2]>> \o extract_header_values_from(headers, header_key, i + 1)
         ELSE extract_header_values_from(headers, header_key, i + 1)
extract_header_values(headers, header_key, single) ==
    LET all == extract_header_values_from(headers, header_key, 1)
    IN IF single /\ all # <<>> THEN <<all[1]>> ELSE all

\* extract_header_values_decoded: the same values, decoded to text
extract_header_values_decoded(headers, header_key, single) ==
    extract_header_values(headers, header_key, single)

\* header_presents(headers, header_key): case-insensitive membership
header_presents(headers, header_key) ==
    \E i \in 1..Len(headers) : Lower(headers[i][1]) = Lower(header_key)

\* parse_date: an IMF-fixdate, "Thu, 01 Jan 1970 00:00:01 GMT", to seconds
\* since the epoch; any other text fails
MonthNames ==
    << <<74, 97, 110>>, <<70, 101, 98>>, <<77, 97, 114>>, <<65, 112, 114>>,
       <<77, 97, 121>>, <<74, 117, 110>>, <<74, 117, 108>>, <<65, 117, 103>>,
       <<83, 101, 112>>, <<79, 99, 116>>, <<78, 111, 118>>, <<68, 101, 99>> >>
DaysBeforeMonth == <<0, 31, 59, 90, 120, 151, 181, 212, 243, 273, 304, 334>>
MonthNumber(name) ==
    IF \E m \in 1..12 : MonthNames[m] = name
    THEN CHOOSE m \in 1..12 : MonthNames[m] = name
    ELSE 0
IsLeapYear(y) == (y % 4 = 0 /\ y % 100 # 0) \/ y % 400 = 0
LeapYearsBefore(y) == ((y - 1) \div 4) - ((y - 1) \div 100) + ((y - 1) \div 400)
\* calendar.timegm
timegm(y, m, d, hh, mm, ss) ==
    LET days == 365 * (y - 1970) + (LeapYearsBefore(y) - LeapYearsBefore(1970))
                + DaysBeforeMonth[m] + (IF m > 2 /\ IsLeapYear(y) THEN 1 ELSE 0)
                + (d - 1)
    IN ((days * 24 + hh) * 60 + mm) * 60 + ss
IsFixdate(s) ==
    /\ Len(s) = 29
    /\ s[4] = 44 /\ s[5] = 32 /\ s[8] = 32 /\ s[12] = 32 /\ s[17] = 32
    /\ s[20] = 58 /\ s[23] = 58
    /\ SubSeq(s, 26, 29) = <<32, 71, 77, 84>>
    /\ AllDigits(SubSeq(s, 6, 7)) /\ AllDigits(SubSeq(s, 13, 16))
    /\ AllDigits(SubSeq(s, 18, 19)) /\ AllDigits(SubSeq(s, 21, 22))
    /\ AllDigits(SubSeq(s, 24, 25))
    /\ MonthNumber(SubSeq(s, 9, 11)) # 0
    /\ DigitsValue(SubSeq(s, 6, 7)) >= 1
parse_date(s) ==
    IF IsFixdate(s)
    THEN IntVal(timegm(DigitsValue(SubSeq(s, 13, 16)), MonthNumber(SubSeq(s, 9, 11)),
                       DigitsValue(SubSeq(s, 6, 7)), DigitsValue(SubSeq(s, 18, 19)),
                       DigitsValue(SubSeq(s, 21, 22)), DigitsValue(SubSeq(s, 24, 25))))
    ELSE Raise("DateParseError")

----------------------------------------------------------------------------
(* hishel/_headers.py, after section 4.2 of the specification.             *)

RECURSIVE Flatten(_)
Flatten(ss) == IF ss = <<>> THEN <<>> ELSE Head(ss) \o Flatten(Tail(ss))

\* the comma-separated tokens of all the raw values, trimmed
DirectiveTokens(values) ==
    LET parts == Flatten([i \in 1..Len(values) |-> SplitOn(values[i], 44)])
    IN [i \in 1..Len(parts) |-> Strip(parts[i])]

\* a bare flag: the token is the directive's name, in any letter case
HasFlag(tokens, name) == \E i \in 1..Len(tokens) : Lower(tokens[i]) = name

\* name=value: the text after the first "=" of the token named name
DirectiveName(token) ==
    LET eq == IndexOf(token, 61)
    IN IF eq = 0 THEN Lower(token) ELSE Lower(Strip(SubSeq(token, 1, eq - 1)))
DirectiveArgument(token) ==
    LET eq == IndexOf(token, 61)
    IN Strip(SubSeq(token, eq + 1, Len(token)))
IsIntegerDirective(token, name) ==
    /\ IndexOf(token, 61) # 0
    /\ DirectiveName(token) = name
    /\ IsInteger(DirectiveArgument(token))
\* the value of the first token that gives name an integer; None without one
IntegerDirective(tokens, name) ==
    IF \E i \in 1..Len(tokens) : IsIntegerDirective(tokens[i], name)
    THEN LET i == CHOOSE k \in 1..Len(tokens) :
                      /\ IsIntegerDirective(tokens[k], name)
                      /\ \A j \in 1..(k - 1) : ~IsIntegerDirective(tokens[j], name)
         IN IntVal(IntegerValue(DirectiveArgument(tokens[i])))
    ELSE NoneVal

\* CacheControl.from_value(values)
CacheControl_from_value(values) ==
    LET tokens == DirectiveTokens(values)
    IN [no_store |-> HasFlag(tokens, B_no_store),
        no_cache |-> HasFlag(tokens, B_no_cache),
        public |-> HasFlag(tokens, B_public),
        private |-> HasFlag(tokens, B_private),
        must_revalidate |-> HasFlag(tokens, B_must_revalidate),
        max_age |-> IntegerDirective(tokens, B_max_age)]

----------------------------------------------------------------------------
(* Bounds of the model.                                                    *)

\* time.time() is a float: the clock counts ticks, TicksPerSecond to a second
TicksPerSecond == 2
\* the last clock reading considered, in ticks
MaxNow == 4
\* the longest request header list a call is made with
MaxRequestHeaders == 1
\* the longest stored and new header lists the merge starts from
MaxStored == 2
MaxNew == 2
\* the longest stored header list a validation response is handled for
MaxMerged == 4

----------------------------------------------------------------------------
(* hishel/_controller.py                                                   *)

HEURISTICALLY_CACHABLE == {200, 203, 204, 206, 300, 301, 308, 404, 405, 410, 414, 501}

\* Controller.__init__: an argument that is None or empty gives the default
Controller_cacheable_methods(arg) == IF arg # <<>> THEN arg ELSE <<B_GET>>
Controller_cacheable_status_codes(arg) == IF arg # <<>> THEN arg ELSE <<200>>

\* x in a_list
InList(x, list) == \E i \in 1..Len(list) : list[i] = x

\* any([...]) of is_cachable: what lets a final response without no-store be stored
any_storable(resp, response_cache_control) ==
    LET expires_presents == header_presents(resp.headers, B_expiers)
    IN \/ response_cache_control.public
       \/ response_cache_control.private
       \/ expires_presents
       \/ response_cache_control.max_age.kind # "none"
       \/ resp.status \in HEURISTICALLY_CACHABLE

\* is_cachable with "response.status / 100 == 1": true division, which only
\* the status 100 satisfies
is_cachable_true_division(req, resp) ==
    LET method == req.method
        response_cache_control ==
            CacheControl_from_value(
                extract_header_values_decoded(resp.headers, B_cache_control, FALSE))
    IN IF ~InList(method, cacheable_methods) THEN BoolVal(FALSE)
       ELSE IF resp.status = 100 THEN BoolVal(FALSE)
       ELSE IF response_cache_control.no_store THEN BoolVal(FALSE)
       ELSE IF ~any_storable(resp, response_cache_control) THEN BoolVal(FALSE)
       ELSE BoolVal(TRUE)

\* is_cachable without its check of no-store
is_cachable_without_no_store(req, resp) ==
    LET method == req.method
        response_cache_control ==
            CacheControl_from_value(
                extract_header_values_decoded(resp.headers, B_cache_control, FALSE))
    IN IF ~InList(method, cacheable_methods) THEN BoolVal(FALSE)
       ELSE IF resp.status \div 100 = 1 THEN BoolVal(FALSE)
       ELSE IF ~any_storable(resp, response_cache_control) THEN BoolVal(FALSE)
       ELSE BoolVal(TRUE)

\* Controller.is_cachable(request, response)
is_cachable(req, resp) ==
    LET method == req.method
        response_cache_control ==
            CacheControl_from_value(
                extract_header_values_decoded(resp.headers, B_cache_control, FALSE))
    IN IF ~InList(method, cacheable_methods) THEN BoolVal(FALSE)
       ELSE IF resp.status \div 100 = 1 THEN BoolVal(FALSE)
       ELSE IF response_cache_control.no_store THEN BoolVal(FALSE)
       ELSE IF ~any_storable(resp, response_cache_control) THEN BoolVal(FALSE)
       ELSE BoolVal(TRUE)

\* [(key, value) for value in values]
WithKey(key, values) == [i \in 1..Len(values) |-> <<key, values[i]>>]

\* the first loop comparing the key as written with b'content-length',
\* without lower()
RECURSIVE merge_stored_length_as_written(_, _, _, _, _)
merge_stored_length_as_written(stored, new, i, updated_headers, checked) ==
    IF i > Len(stored) THEN [updated_headers |-> updated_headers, checked |-> checked]
    ELSE LET key == stored[i][1]
         IN IF key \notin checked /\ key # B_content_length
            THEN LET values == extract_header_values(new, key, FALSE)
                     kept == IF values # <<>> THEN values
                             ELSE extract_header_values(stored, key, FALSE)
                 IN merge_stored_length_as_written(stored, new, i + 1,
                                                   updated_headers \o WithKey(key, kept),
                                                   checked \cup {key})
            ELSE merge_stored_length_as_written(stored, new, i + 1, updated_headers, checked)

\* the first loop of get_updated_headers, from the i-th stored header on;
\* checked is the set of the keys, as written, handled so far
RECURSIVE merge_stored(_, _, _, _, _)
merge_stored(stored, new, i, updated_headers, checked) ==
    IF i > Len(stored) THEN [updated_headers |-> updated_headers, checked |-> checked]
    ELSE LET key == stored[i][1]
         IN IF key \notin checked /\ Lower(key) # B_content_length
            THEN LET values == extract_header_values(new, key, FALSE)
                     kept == IF values # <<>> THEN values
                             ELSE extract_header_values(stored, key, FALSE)
                 IN merge_stored(stored, new, i + 1,
                                 updated_headers \o WithKey(key, kept),
                                 checked \cup {key})
            ELSE merge_stored(stored, new, i + 1, updated_headers, checked)

\* the second loop of get_updated_headers, from the i-th new header on
RECURSIVE merge_new(_, _, _, _)
merge_new(new, i, updated_headers, checked) ==
    IF i > Len(new) THEN updated_headers
    ELSE LET key == new[i][1]
         IN IF key \notin checked /\ Lower(key) # B_content_length
            THEN merge_new(new, i + 1,
                           updated_headers \o WithKey(key, extract_header_values(new, key, FALSE)),
                           checked)
            ELSE merge_new(new, i + 1, updated_headers, checked)

\* Controller.get_updated_headers(stored_response_headers, new_response_headers)
get_updated_headers(stored_response_headers, new_response_headers) ==
    LET first == merge_stored(stored_response_headers, new_response_headers, 1, <<>>, {})
    IN merge_new(new_response_headers, 1, first.updated_headers, first.checked)

\* get_freshness_lifetime looking at the Expires header before max-age
get_freshness_lifetime_expires_first(resp) ==
    LET response_cache_control ==
            CacheControl_from_value(
                extract_header_values_decoded(resp.headers, B_cache_control, FALSE))
    IN IF header_presents(resp.headers, B_expires)
       THEN LET expires == extract_header_values_decoded(resp.headers, B_expires, TRUE)[1]
                expires_timestamp == parse_date(expires)
                dates == extract_header_values_decoded(resp.headers, B_date, TRUE)
            IN IF Raised(expires_timestamp) THEN expires_timestamp
               ELSE IF dates = <<>> THEN Raise("IndexError")
               ELSE LET date_timestamp == parse_date(dates[1])
                    IN IF Raised(date_timestamp) THEN date_timestamp
                       ELSE IntVal(expires_timestamp.int - date_timestamp.int)
       ELSE IF response_cache_control.max_age.kind # "none"
       THEN response_cache_control.max_age
       ELSE NoneVal

\* Controller.get_freshness_lifetime(response)
get_freshness_lifetime(resp) ==
    LET response_cache_control ==
            CacheControl_from_value(
                extract_header_values_decoded(resp.headers, B_cache_control, FALSE))
    IN IF response_cache_control.max_age.kind # "none"
       THEN response_cache_control.max_age
       ELSE IF header_presents(resp.headers, B_expires)
       THEN LET expires == extract_header_values_decoded(resp.headers, B_expires, TRUE)[1]
                expires_timestamp == parse_date(expires)
                dates == extract_header_values_decoded(resp.headers, B_date, TRUE)
            IN IF Raised(expires_timestamp) THEN expires_timestamp
               ELSE IF dates = <<>> THEN Raise("IndexError")
               ELSE LET date_timestamp == parse_date(dates[1])
                    IN IF Raised(date_timestamp) THEN date_timestamp
                       ELSE IntVal(expires_timestamp.int - date_timestamp.int)
       ELSE NoneVal

\* get_age without max(0, ...): int() of a negative difference
get_age_without_max(resp, clock) ==
    LET dates == extract_header_values_decoded(resp.headers, B_date, FALSE)
    IN IF dates = <<>> THEN Raise("IndexError")
       ELSE LET date == parse_date(dates[1])
            IN IF Raised(date) THEN date
               ELSE LET elapsed == clock - date.int * TicksPerSecond
                    IN IntVal(IF elapsed >= 0 THEN elapsed \div TicksPerSecond
                              ELSE 0 - ((0 - elapsed) \div TicksPerSecond))

\* Controller.get_age(response), the clock reading clock ticks
get_age(resp, clock) ==
    LET dates == extract_header_values_decoded(resp.headers, B_date, FALSE)
    IN IF dates = <<>> THEN Raise("IndexError")
       ELSE LET date == parse_date(dates[1])
            IN IF Raised(date) THEN date
               ELSE LET elapsed == clock - date.int * TicksPerSecond
                        apparent_age == IF elapsed > 0 THEN elapsed ELSE 0
                    IN IntVal(apparent_age \div TicksPerSecond)

\* precondition_headers appending If-None-Match before If-Unmodified-Since
precondition_headers_etag_first(resp) ==
    LET last_modified ==
            IF header_presents(resp.headers, B_last_modified)
            THEN extract_header_values(resp.headers, B_last_modified, TRUE)[1]
            ELSE <<>>
        etag ==
            IF header_presents(resp.headers, B_etag)
            THEN extract_header_values(resp.headers, B_etag, TRUE)[1]
            ELSE <<>>
    IN (IF etag # <<>> THEN << <<B_If_None_Match, etag>> >> ELSE <<>>)
       \o (IF last_modified # <<>> THEN << <<B_If_Unmodified_Since, last_modified>> >> ELSE <<>>)

\* the precondition_headers of make_request_conditional; an absent header and
\* an empty value are both false in "if last_modified:"
precondition_headers(resp) ==
    LET last_modified ==
            IF header_presents(resp.headers, B_last_modified)
            THEN extract_header_values(resp.headers, B_last_modified, TRUE)[1]
            ELSE <<>>
        etag ==
            IF header_presents(resp.headers, B_etag)
            THEN extract_header_values(resp.headers, B_etag, TRUE)[1]
            ELSE <<>>
    IN (IF last_modified # <<>> THEN << <<B_If_Unmodified_Since, last_modified>> >> ELSE <<>>)
       \o (IF etag # <<>> THEN << <<B_If_None_Match, etag>> >> ELSE <<>>)

\* Controller.make_request_conditional(request, response): the request after it
make_request_conditional(req, resp) ==
    [req EXCEPT !.headers = @ \o precondition_headers(resp)]

\* Controller.alloweed_stale(response)
alloweed_stale(resp) ==
    LET response_cache_control ==
            CacheControl_from_value(
                extract_header_values_decoded(resp.headers, B_cache_control, FALSE))
    IN IF response_cache_control.no_cache THEN BoolVal(FALSE)
       ELSE IF response_cache_control.must_revalidate THEN BoolVal(FALSE)
       ELSE BoolVal(TRUE)

\* construct_response_from_cache looking at no-cache only after it has
\* computed the freshness lifetime and the age
construct_response_from_cache_no_cache_late(req, resp, clock) ==
    LET response_cache_control ==
            CacheControl_from_value(
                extract_header_values_decoded(resp.headers, B_cache_control, FALSE))
        freshness_lifetime == get_freshness_lifetime(resp)
        age == get_age(resp, clock)
    IN IF Raised(freshness_lifetime) THEN [ret |-> freshness_lifetime, request |-> req]
       ELSE IF Raised(age) THEN [ret |-> age, request |-> req]
       ELSE IF response_cache_control.no_cache
       THEN [ret |-> ObjectRef("request"), request |-> make_request_conditional(req, resp)]
       ELSE IF freshness_lifetime.kind = "none" THEN [ret |-> Raise("TypeError"), request |-> req]
       ELSE LET is_fresh == age.int > freshness_lifetime.int
            IN IF is_fresh \/ IsTrue(alloweed_stale(resp))
               THEN [ret |-> ObjectRef("response"), request |-> req]
               ELSE [ret |-> ClassRef("Request"),
                     request |-> make_request_conditional(req, resp)]

\* construct_response_from_cache making the request conditional before it
\* decides what to return
construct_response_from_cache_conditional_first(req, resp, clock) ==
    LET response_cache_control ==
            CacheControl_from_value(
                extract_header_values_decoded(resp.headers, B_cache_control, FALSE))
        freshness_lifetime == get_freshness_lifetime(resp)
        age == get_age(resp, clock)
        conditional == make_request_conditional(req, resp)
    IN IF response_cache_control.no_cache
       THEN [ret |-> ObjectRef("request"), request |-> conditional]
       ELSE IF Raised(freshness_lifetime) THEN [ret |-> freshness_lifetime, request |-> conditional]
       ELSE IF Raised(age) THEN [ret |-> age, request |-> conditional]
       ELSE IF freshness_lifetime.kind = "none"
       THEN [ret |-> Raise("TypeError"), request |-> conditional]
       ELSE LET is_fresh == age.int > freshness_lifetime.int
            IN IF is_fresh \/ IsTrue(alloweed_stale(resp))
               THEN [ret |-> ObjectRef("response"), request |-> conditional]
               ELSE [ret |-> ClassRef("Request"), request |-> conditional]

\* Controller.construct_response_from_cache(request, response): what it
\* returns or raises, and the request after it
construct_response_from_cache(req, resp, clock) ==
    LET response_cache_control ==
            CacheControl_from_value(
                extract_header_values_decoded(resp.headers, B_cache_control, FALSE))
        freshness_lifetime == get_freshness_lifetime(resp)
        age == get_age(resp, clock)
    IN IF response_cache_control.no_cache
       THEN [ret |-> ObjectRef("request"), request |-> make_request_conditional(req, resp)]
       ELSE IF Raised(freshness_lifetime) THEN [ret |-> freshness_lifetime, request |-> req]
       ELSE IF Raised(age) THEN [ret |-> age, request |-> req]
       \* age > None
       ELSE IF freshness_lifetime.kind = "none" THEN [ret |-> Raise("TypeError"), request |-> req]
       ELSE LET is_fresh == age.int > freshness_lifetime.int
            IN IF is_fresh \/ IsTrue(alloweed_stale(resp))
               THEN [ret |-> ObjectRef("response"), request |-> req]
               ELSE [ret |-> ClassRef("Request"),
                     request |-> make_request_conditional(req, resp)]

\* handle_validation_response merging with the two header lists exchanged
handle_validation_response_swapped(old, new) ==
    IF new.status = 304
    THEN [ret |-> ObjectRef("response"),
          response |-> [old EXCEPT !.headers = get_updated_headers(new.headers, old.headers)]]
    ELSE [ret |-> ObjectRef("new_response"), response |-> old]

\* handle_validation_response assigning the merged headers whatever the status
handle_validation_response_always_merges(old, new) ==
    IF new.status = 304
    THEN [ret |-> ObjectRef("response"),
          response |-> [old EXCEPT !.headers = get_updated_headers(old.headers, new.headers)]]
    ELSE [ret |-> ObjectRef("new_response"),
          response |-> [old EXCEPT !.headers = get_updated_headers(old.headers, new.headers)]]

\* Controller.handle_validation_response(old_response, new_response): what it
\* returns, and old_response after it
handle_validation_response(old, new) ==
    IF new.status = 304
    THEN [ret |-> ObjectRef("response"),
          response |-> [old EXCEPT !.headers = get_updated_headers(old.headers, new.headers)]]
    ELSE [ret |-> ObjectRef("new_response"), response |-> old]

----------------------------------------------------------------------------
(* The messages the callers hand to the Controller.                        *)

SeqsUpTo(S, n) == UNION {[1..k -> S] : k \in 0..n}

\* one optional header: absent, or name with one of the values
Optional(name, values) == {<<>>} \cup {<< <<name, v>> >> : v \in values}

N_Cache_Control == <<67, 97, 99, 104, 101, 45, 67, 111, 110, 116, 114, 111, 108>>
N_Date == <<68, 97, 116, 101>>
N_Expires == <<69, 120, 112, 105, 114, 101, 115>>
N_Expiers == <<69, 120, 112, 105, 101, 114, 115>>
N_Last_Modified == <<76, 97, 115, 116, 45, 77, 111, 100, 105, 102, 105, 101, 100>>
N_ETag == <<69, 84, 97, 103>>
N_Content_Length == <<67, 111, 110, 116, 101, 110, 116, 45, 76, 101, 110, 103, 116, 104>>
N_X_Custom == <<88, 45, 67, 117, 115, 116, 111, 109>>
N_Via == <<86, 105, 97>>
N_Accept == <<65, 99, 99, 101, 112, 116>>
M_POST == <<80, 79, 83, 84>>
M_get == <<103, 101, 116>>

\* "Thu, 01 Jan 1970 00:00:0s GMT", s a digit
HttpDate(s) ==
    <<84, 104, 117, 44, 32, 48, 49, 32, 74, 97, 110, 32, 49, 57, 55, 48, 32,
      48, 48, 58, 48, 48, 58, 48, 48 + s, 32, 71, 77, 84>>
\* "yesterday": no HTTP-date
V_not_a_date == <<121, 101, 115, 116, 101, 114, 100, 97, 121>>

V_max_age_1 == <<109, 97, 120, 45, 97, 103, 101, 61, 49>>
\* "max-age=1, must-revalidate"
V_max_age_1_must_revalidate ==
    <<109, 97, 120, 45, 97, 103, 101, 61, 49, 44, 32, 109, 117, 115, 116, 45,
      114, 101, 118, 97, 108, 105, 100, 97, 116, 101>>
\* "Max-Age=0, Must-Revalidate"
V_Max_Age_0_Must_Revalidate ==
    <<77, 97, 120, 45, 65, 103, 101, 61, 48, 44, 32, 77, 117, 115, 116, 45,
      82, 101, 118, 97, 108, 105, 100, 97, 116, 101>>
\* "no-cache, max-age=1"
V_no_cache_max_age_1 ==
    <<110, 111, 45, 99, 97, 99, 104, 101, 44, 32, 109, 97, 120, 45, 97, 103, 101, 61, 49>>
\* "max-age=x": not an integer
V_max_age_x == <<109, 97, 120, 45, 97, 103, 101, 61, 120>>
\* "no-store, public, max-age=1"
V_no_store_public_max_age_1 ==
    <<110, 111, 45, 115, 116, 111, 114, 101, 44, 32, 112, 117, 98, 108, 105, 99,
      44, 32, 109, 97, 120, 45, 97, 103, 101, 61, 49>>
\* "NO-STORE"
V_NO_STORE == <<78, 79, 45, 83, 84, 79, 82, 69>>
V_a == <<97>>
V_b == <<98>>
V_c == <<99>>
V_d == <<100>>
V_any == <<42, 47, 42>>

Snapshot(req, resp, new) == [request |-> req, response |-> resp, new_response |-> new]

\* the arguments Controller(...) is built with: none, or the methods GET and POST
ControllerArguments == {<<>>, <<B_GET, M_POST>>}

\* is_cachable: the request methods and the responses of the transport
CachableMethods == {B_GET, M_POST, M_get}
CachableStatuses == {100, 101, 199, 200, 302, 404, 500}
CachableHeaderLists ==
    {cc \o ex : cc \in Optional(N_Cache_Control,
                                {B_public, B_private, V_max_age_1, V_max_age_x, B_no_cache,
                                 B_no_store, V_NO_STORE, V_no_store_public_max_age_1}),
                ex \in Optional(N_Expires, {HttpDate(1)}) \cup Optional(N_Expiers, {HttpDate(1)})}

\* construct_response_from_cache and what it calls: the stored responses
StoredCacheControls ==
    Optional(N_Cache_Control, {V_max_age_1, V_max_age_1_must_revalidate,
                               V_Max_Age_0_Must_Revalidate, B_must_revalidate,
                               B_no_cache, V_no_cache_max_age_1})
Validators(lms, ets) ==
    {lm \o et : lm \in Optional(N_Last_Modified, lms), et \in Optional(N_ETag, ets)}
\* every freshness header, with and without both validators
FreshnessHeaderLists ==
    {cc \o da \o ex \o va :
        cc \in StoredCacheControls,
        da \in Optional(N_Date, {HttpDate(0), V_not_a_date}),
        ex \in Optional(N_Expires, {HttpDate(1), V_not_a_date}),
        va \in {<<>>, << <<N_Last_Modified, HttpDate(0)>>, <<N_ETag, V_a>> >>}}
\* every validator, also with an empty value, on responses to revalidate, dated
\* at the epoch and one second after it
ValidatorHeaderLists ==
    {cc \o da \o va :
        cc \in Optional(N_Cache_Control, {V_Max_Age_0_Must_Revalidate, B_no_cache}) \ {<<>>},
        da \in Optional(N_Date, {HttpDate(0), HttpDate(1)}) \ {<<>>},
        va \in Validators({HttpDate(0), <<>>}, {V_a, <<>>})}
\* a validator given twice, in two letter cases, the first value also empty
RepeatedValidatorHeaderLists ==
    {<< <<N_Cache_Control, B_no_cache>>, <<N_Date, HttpDate(0)>> >> \o va :
        va \in {<< <<B_etag, V_a>>, <<N_ETag, V_b>> >>,
                << <<N_ETag, <<>> >>, <<N_ETag, V_b>> >>,
                << <<N_Last_Modified, HttpDate(0)>>, <<B_last_modified, HttpDate(1)>> >>}}
StoredHeaderLists ==
    FreshnessHeaderLists \cup ValidatorHeaderLists \cup RepeatedValidatorHeaderLists
RequestHeaderLists == SeqsUpTo({<<N_Accept, V_any>>}, MaxRequestHeaders)

\* get_updated_headers: the headers of the stored response and of the 304
MergeStoredPairs ==
    {<<N_ETag, V_a>>, <<B_etag, V_b>>, <<N_X_Custom, V_a>>, <<N_Content_Length, V_a>>}
MergeNewPairs ==
    {<<N_ETag, V_c>>, <<N_Via, V_c>>, <<N_Via, V_d>>, <<B_content_length, V_c>>}
ValidationStatuses == {304, 200, 500}

DefaultRequest == [method |-> B_GET, headers |-> <<>>]
DefaultResponse == [status |-> 200, headers |-> <<>>]

----------------------------------------------------------------------------
(* The initial states: a Controller, and the messages of one family.       *)

InitController ==
    /\ \E arg \in ControllerArguments :
          cacheable_methods = Controller_cacheable_methods(arg)
    /\ cacheable_status_codes = Controller_cacheable_status_codes(<<>>)
    /\ now = 0
    /\ call = "none"
    /\ ret = NoCall

InitCachable ==
    /\ InitController
    /\ \E m \in CachableMethods : request = [method |-> m, headers |-> <<>>]
    /\ \E s \in CachableStatuses, h \in CachableHeaderLists :
          response = [status |-> s, headers |-> h]
    /\ new_response = DefaultResponse
    /\ pre = Snapshot(request, response, new_response)

InitCache ==
    /\ InitController
    /\ cacheable_methods = <<B_GET>>
    /\ \E h \in RequestHeaderLists : request = [method |-> B_GET, headers |-> h]
    /\ \E h \in StoredHeaderLists : response = [status |-> 200, headers |-> h]
    /\ new_response = DefaultResponse
    /\ pre = Snapshot(request, response, new_response)

InitMerge ==
    /\ InitController
    /\ cacheable_methods = <<B_GET>>
    /\ request = DefaultRequest
    /\ \E h \in SeqsUpTo(MergeStoredPairs, MaxStored) :
          response = [status |-> 200, headers |-> h]
    /\ \E s \in ValidationStatuses, h \in SeqsUpTo(MergeNewPairs, MaxNew) :
          new_response = [status |-> s, headers |-> h]
    /\ pre = Snapshot(request, response, new_response)

Init == InitCachable \/ InitCache \/ InitMerge

----------------------------------------------------------------------------
(* One action per method of the Controller.                                *)

Called(name, value) ==
    /\ call' = name
    /\ ret' = value
    /\ pre' = Snapshot(request, response, new_response)

IsCachable ==
    /\ Called("is_cachable", is_cachable(request, response))
    /\ UNCHANGED <<cacheable_methods, cacheable_status_codes, request, response,
                   new_response, now>>

GetUpdatedHeaders ==
    /\ Called("get_updated_headers",
              ListVal(get_updated_headers(response.headers, new_response.headers)))
    /\ UNCHANGED <<cacheable_methods, cacheable_status_codes, request, response,
                   new_response, now>>

GetFreshnessLifetime ==
    /\ Called("get_freshness_lifetime", get_freshness_lifetime(response))
    /\ UNCHANGED <<cacheable_methods, cacheable_status_codes, request, response,
                   new_response, now>>

\* time.time() reads a clock that has not gone back
GetAge ==
    \E clock \in now..MaxNow :
        /\ now' = clock
        /\ Called("get_age", get_age(response, clock))
        /\ UNCHANGED <<cacheable_methods, cacheable_status_codes, request, response,
                       new_response>>

MakeRequestConditional ==
    /\ Len(request.headers) <= MaxRequestHeaders
    /\ request' = make_request_conditional(request, response)
    /\ Called("make_request_conditional", NoneVal)
    /\ UNCHANGED <<cacheable_methods, cacheable_status_codes, response, new_response, now>>

AllowedStale ==
    /\ Called("alloweed_stale", alloweed_stale(response))
    /\ UNCHANGED <<cacheable_methods, cacheable_status_codes, request, response,
                   new_response, now>>

ConstructResponseFromCache ==
    /\ Len(request.headers) <= MaxRequestHeaders
    /\ \E clock \in now..MaxNow :
          LET done == construct_response_from_cache(request, response, clock)
          IN /\ now' = clock
             /\ request' = done.request
             /\ Called("construct_response_from_cache", done.ret)
    /\ UNCHANGED <<cacheable_methods, cacheable_status_codes, response, new_response>>

HandleValidationResponse ==
    /\ Len(response.headers) <= MaxMerged
    /\ LET done == handle_validation_response(response, new_response)
       IN /\ response' = done.response
          /\ Called("handle_validation_response", done.ret)
    /\ UNCHANGED <<cacheable_methods, cacheable_status_codes, request, new_response, now>>

NextCachable == IsCachable
NextCache ==
    \/ GetFreshnessLifetime
    \/ GetAge
    \/ MakeRequestConditional
    \/ AllowedStale
    \/ ConstructResponseFromCache
NextMerge == GetUpdatedHeaders \/ HandleValidationResponse
Next == NextCachable \/ NextCache \/ NextMerge

\* the admission check on the responses of the transport
SpecCachable == InitCachable /\ [][NextCachable]_vars
\* serving a stored response: freshness, age, staleness, conditional requests
SpecCache == InitCache /\ [][NextCache]_vars
\* the revalidation: the 304 merge
SpecMerge == InitMerge /\ [][NextMerge]_vars
Spec == Init /\ [][Next]_vars

----------------------------------------------------------------------------
(* What the claims speak of, in terms of the messages at the call.         *)

\* the directives of the stored response the call was made with
StoredDirectives ==
    CacheControl_from_value(
        extract_header_values_decoded(pre.response.headers, B_cache_control, FALSE))
\* its freshness lifetime and its age at the clock reading of the call
StoredLifetime == get_freshness_lifetime(pre.response)
StoredAge == get_age(pre.response, now)
LifetimeKnown == StoredLifetime.kind = "int"
AgeKnown == StoredAge.kind = "int"
\* no max-age and no Expires header
LifetimeUnknown ==
    /\ StoredDirectives.max_age.kind = "none"
    /\ ~header_presents(pre.response.headers, B_expires)
AllowsStale == ~StoredDirectives.no_cache /\ ~StoredDirectives.must_revalidate
Constructed == call = "construct_response_from_cache"
ReturnedStoredResponse == ret = ObjectRef("response")
\* the request instance came back, with the precondition headers appended
ReturnedConditionalRequest ==
    /\ ret = ObjectRef("request")
    /\ request = make_request_conditional(pre.request, pre.response)

----------------------------------------------------------------------------
(* construct_response_from_cache                                           *)

\* C1: a stored response without no-cache whose age is not greater than its
\* (known) freshness lifetime is returned itself, with or without
\* must-revalidate.
C1_FreshIsServed ==
    (Constructed /\ ~StoredDirectives.no_cache /\ LifetimeKnown /\ AgeKnown
        /\ StoredAge.int <= StoredLifetime.int)
    => ReturnedStoredResponse

\* C2: a stored response without no-cache, older than its freshness lifetime
\* and not allowed to be served stale, is not returned: the request is made
\* conditional and returned.
C2_StaleIsRevalidated ==
    (Constructed /\ ~StoredDirectives.no_cache /\ LifetimeKnown /\ AgeKnown
        /\ StoredAge.int > StoredLifetime.int /\ ~AllowsStale)
    => (~ReturnedStoredResponse /\ ReturnedConditionalRequest)

\* C3: with no no-cache and an unknown freshness lifetime the call does not
\* raise; it returns the stored response if the response may be served stale
\* and the conditional request otherwise.
C3_UnknownLifetimeIsNotFresh ==
    (Constructed /\ ~StoredDirectives.no_cache /\ LifetimeUnknown)
    => /\ ~Raised(ret)
       /\ AllowsStale => ReturnedStoredResponse
       /\ ~AllowsStale => ReturnedConditionalRequest

\* C4: a stored response with no-cache is never returned, whatever its age and
\* lifetime and also without a Date: the request passed in is made conditional
\* and returned.
C4_NoCacheIsRevalidated ==
    (Constructed /\ StoredDirectives.no_cache)
    => (~ReturnedStoredResponse /\ ReturnedConditionalRequest)

\* C4's case: no-cache on a response without a Date, with validators
C4_Witness ==
    /\ Constructed
    /\ StoredDirectives.no_cache
    /\ ~header_presents(pre.response.headers, B_date)
    /\ ret = ObjectRef("request")
    /\ Len(request.headers) = Len(pre.request.headers) + 2

----------------------------------------------------------------------------
(* is_cachable                                                             *)

CachableCalled == call = "is_cachable"
ResponseDirectives ==
    CacheControl_from_value(
        extract_header_values_decoded(pre.response.headers, B_cache_control, FALSE))
MethodAllowed == InList(pre.request.method, cacheable_methods)
Informational == pre.response.status >= 100 /\ pre.response.status <= 199

\* C5: is_cachable is true exactly when the method is allowed, the status is
\* not 1xx, no-store is absent, and one of public, private, an Expires header,
\* max-age or a heuristically cacheable status is there.
C5_CachableExactly ==
    CachableCalled =>
        (IsTrue(ret) <=>
            /\ MethodAllowed
            /\ ~Informational
            /\ ~ResponseDirectives.no_store
            /\ \/ ResponseDirectives.public
               \/ ResponseDirectives.private
               \/ header_presents(pre.response.headers, B_expires)
               \/ ResponseDirectives.max_age.kind = "int"
               \/ pre.response.status \in HEURISTICALLY_CACHABLE)

\* C6: a response with a status of 100..199 is never cacheable, whatever the
\* method and the other headers.
C6_InformationalNotCachable ==
    (CachableCalled /\ Informational) => IsFalse(ret)

\* C6's case: an allowed method and a 1xx response that is public
C6_Witness ==
    /\ CachableCalled
    /\ pre.response.status = 101
    /\ MethodAllowed
    /\ ResponseDirectives.public
    /\ IsFalse(ret)

\* C7: a response with no-store is never cacheable, whatever else it carries.
C7_NoStoreNotCachable ==
    (CachableCalled /\ ResponseDirectives.no_store) => IsFalse(ret)

\* C7's case: an allowed method, status 200, no-store beside public and max-age
C7_Witness ==
    /\ CachableCalled
    /\ MethodAllowed
    /\ pre.response.status = 200
    /\ ResponseDirectives.no_store
    /\ ResponseDirectives.public
    /\ ResponseDirectives.max_age.kind = "int"
    /\ IsFalse(ret)

----------------------------------------------------------------------------
(* handle_validation_response and get_updated_headers                      *)

Validated == call = "handle_validation_response"
\* the instance a returned reference names
Returned == IF ret.ref = "new_response" THEN new_response ELSE response

\* C8: on a 304 the result has the old response's status and the merged
\* headers; on any other status the result is new_response itself, as it was.
C8_ValidationResult ==
    Validated =>
        /\ ret.kind = "object"
        /\ ret.ref \in {"response", "new_response"}
        /\ IF pre.new_response.status = 304
           THEN /\ Returned.status = pre.response.status
                /\ Returned.headers =
                       get_updated_headers(pre.response.headers, pre.new_response.headers)
           ELSE /\ ret = ObjectRef("new_response")
                /\ new_response = pre.new_response

\* C8's case: a 304 whose headers change the stored ones
C8_Witness ==
    /\ Validated
    /\ pre.new_response.status = 304
    /\ pre.new_response.headers # <<>>
    /\ pre.response.headers # <<>>
    /\ response.headers # pre.response.headers
    /\ response.status = pre.response.status

Merged == call = "get_updated_headers"
IsContentLength(name) == Lower(name) = B_content_length
SameName(a, b) == Lower(a) = Lower(b)
\* the values headers give name, in order, and whether they give it any
RECURSIVE ValuesOf(_, _)
ValuesOf(headers, name) ==
    IF headers = <<>> THEN <<>>
    ELSE (IF SameName(Head(headers)[1], name) THEN <<Head(headers)[2]>> ELSE <<>>)
         \o ValuesOf(Tail(headers), name)
Names(headers) == {headers[i][1] : i \in 1..Len(headers)}
Occurs(headers, name) == \E n \in Names(headers) : SameName(n, name)
\* the distinct names of headers, lower-cased, in the order of their first
\* occurrence, Content-Length and the names skip gives left out
RECURSIVE NameOrder(_, _)
NameOrder(headers, skip) ==
    IF headers = <<>> THEN <<>>
    ELSE LET name == Head(headers)[1]
         IN IF IsContentLength(name) \/ Occurs(skip, name)
            THEN NameOrder(Tail(headers), skip)
            ELSE <<Lower(name)>> \o NameOrder(Tail(headers), skip \o <<Head(headers)>>)

\* C9: every stored name but Content-Length carries exactly the new values if
\* the new headers give it, else exactly the stored values; the names come in
\* the stored order, then the new-only names in their order.
C9_ReplacementAndOrder ==
    Merged =>
        LET stored == pre.response.headers
            new == pre.new_response.headers
        IN /\ \A name \in Names(stored) :
                  ~IsContentLength(name) =>
                      ValuesOf(ret.headers, name) =
                          IF Occurs(new, name) THEN ValuesOf(new, name)
                          ELSE ValuesOf(stored, name)
           /\ NameOrder(ret.headers, <<>>) = NameOrder(stored, <<>>) \o NameOrder(new, stored)

\* C10: every name occurs in the output as often as in the new headers if it
\* occurs there, else as often as in the stored headers, names compared
\* without regard to letter case.
C10_EachNameOnce ==
    Merged =>
        LET stored == pre.response.headers
            new == pre.new_response.headers
        IN \A name \in Names(stored) \cup Names(new) :
               ~IsContentLength(name) =>
                   Len(ValuesOf(ret.headers, name)) =
                       IF Occurs(new, name) THEN Len(ValuesOf(new, name))
                       ELSE Len(ValuesOf(stored, name))

\* C11: the output of get_updated_headers has no header named
\* Content-Length, in any letter case, wherever the inputs have one.
C11_NoContentLength ==
    Merged => \A i \in 1..Len(ret.headers) : ~IsContentLength(ret.headers[i][1])

\* C11's case: Content-Length in the stored and in the new headers, in two
\* letter cases, beside a header that is kept
C11_Witness ==
    /\ Merged
    /\ N_Content_Length \in Names(pre.response.headers)
    /\ B_content_length \in Names(pre.new_response.headers)
    /\ Len(pre.response.headers) = 2
    /\ ret.headers # <<>>

----------------------------------------------------------------------------
(* get_freshness_lifetime, make_request_conditional, get_age               *)

FreshnessCalled == call = "get_freshness_lifetime"
\* the first value of the header name of the stored response, parsed as a date
StoredHasHeader(name) == Occurs(pre.response.headers, name)
StoredDateOf(name) == parse_date(ValuesOf(pre.response.headers, name)[1])
\* the Expires and the Date header are both there and both parse
ExpiresAndDateParse ==
    /\ StoredHasHeader(B_expires) /\ StoredDateOf(B_expires).kind = "int"
    /\ StoredHasHeader(B_date) /\ StoredDateOf(B_date).kind = "int"

\* C12: with max-age present, also max-age=0, get_freshness_lifetime returns
\* its value, whatever Expires and Date say and whether or not they parse.
C12_MaxAgeWins ==
    (FreshnessCalled /\ StoredDirectives.max_age.kind = "int")
    => ret = IntVal(StoredDirectives.max_age.int)

\* C12's case: max-age=0 beside an Expires one second after the Date
C12_Witness ==
    /\ FreshnessCalled
    /\ StoredDirectives.max_age.kind = "int"
    /\ StoredDirectives.max_age.int = 0
    /\ ExpiresAndDateParse
    /\ StoredDateOf(B_expires).int - StoredDateOf(B_date).int = 1
    /\ ret = IntVal(0)

\* C13: without max-age and with an Expires header, get_freshness_lifetime
\* returns Expires minus Date if both parse, and None, without raising, if the
\* Date is absent or one of the two does not parse.
C13_ExpiresMinusDateOrUnknown ==
    (FreshnessCalled /\ StoredDirectives.max_age.kind = "none" /\ StoredHasHeader(B_expires))
    => IF ExpiresAndDateParse
       THEN ret = IntVal(StoredDateOf(B_expires).int - StoredDateOf(B_date).int)
       ELSE ret = NoneVal

MadeConditional == call = "make_request_conditional"
StoredFirstValue(name) == ValuesOf(pre.response.headers, name)[1]
\* the header <<header, first value of name>> if present holds, else nothing
PreconditionIf(present, header, name) ==
    IF present THEN << <<header, StoredFirstValue(name)>> >> ELSE <<>>

\* C14 as claimed: the request keeps its headers and gets If-Unmodified-Since
\* with the first Last-Modified value if that header is present, then
\* If-None-Match with the first ETag value if that header is present, whatever
\* the values.
C14_PresenceAloneDecides ==
    MadeConditional =>
        /\ request.method = pre.request.method
        /\ request.headers =
               pre.request.headers
               \o PreconditionIf(StoredHasHeader(B_last_modified),
                                 B_If_Unmodified_Since, B_last_modified)
               \o PreconditionIf(StoredHasHeader(B_etag), B_If_None_Match, B_etag)

\* C14, amended: as above, but a header whose first value is empty counts as
\* absent.
C14_NonEmptyValueDecides ==
    MadeConditional =>
        /\ request.method = pre.request.method
        /\ request.headers =
               pre.request.headers
               \o PreconditionIf(StoredHasHeader(B_last_modified)
                                     /\ StoredFirstValue(B_last_modified) # <<>>,
                                 B_If_Unmodified_Since, B_last_modified)
               \o PreconditionIf(StoredHasHeader(B_etag) /\ StoredFirstValue(B_etag) # <<>>,
                                 B_If_None_Match, B_etag)

\* C14's case: a request with a header of its own, a stored response with an
\* empty Last-Modified and an ETag
C14_Witness ==
    /\ MadeConditional
    /\ pre.request.headers # <<>>
    /\ StoredHasHeader(B_last_modified) /\ StoredFirstValue(B_last_modified) = <<>>
    /\ StoredHasHeader(B_etag) /\ StoredFirstValue(B_etag) # <<>>
    /\ request.headers = pre.request.headers \o << <<B_If_None_Match, StoredFirstValue(B_etag)>> >>

AgeCalled == call = "get_age"

\* C15: get_age returns the whole seconds from the Date to now, 0 for a Date
\* in the future, never a negative number; without a Date that parses it
\* raises.
C15_AgeIsElapsedSeconds ==
    AgeCalled =>
        IF StoredHasHeader(B_date) /\ StoredDateOf(B_date).kind = "int"
        THEN LET elapsed == now - StoredDateOf(B_date).int * TicksPerSecond
             IN /\ ret.kind = "int"
                /\ ret.int >= 0
                /\ elapsed <= 0 => ret.int = 0
                /\ elapsed >= 0 => /\ ret.int * TicksPerSecond <= elapsed
                                   /\ elapsed < (ret.int + 1) * TicksPerSecond
        ELSE Raised(ret)

\* C15's case: a Date a second ahead of the clock
C15_Witness ==
    /\ AgeCalled
    /\ StoredHasHeader(B_date) /\ StoredDateOf(B_date).kind = "int"
    /\ now + TicksPerSecond <= StoredDateOf(B_date).int * TicksPerSecond
    /\ ret = IntVal(0)

----------------------------------------------------------------------------
(* What the calls return and what they leave alone.                        *)

\* C16: what construct_response_from_cache returns is the stored response or
\* the request instance passed in; when it is not the stored response, it is
\* that request with the precondition headers appended.
C16_ReturnsResponseOrRequest ==
    (Constructed /\ ~Raised(ret))
    => \/ ReturnedStoredResponse
       \/ ReturnedConditionalRequest

\* C17: merging the same new headers into the merged headers again changes
\* nothing: get_updated_headers(get_updated_headers(stored, new), new) is
\* get_updated_headers(stored, new), so repeated 304s do not grow the entry.
C17_MergeIsIdempotent ==
    Merged => get_updated_headers(ret.headers, pre.new_response.headers) = ret.headers

\* C18: on a 304 the old response instance is returned with the merged headers
\* and its status, and new_response is as it was; on any other status the old
\* response is as it was.
C18_ValidationFrame ==
    Validated =>
        IF pre.new_response.status = 304
        THEN /\ ret = ObjectRef("response")
             /\ response = [status |-> pre.response.status,
                            headers |-> get_updated_headers(pre.response.headers,
                                                            pre.new_response.headers)]
             /\ new_response = pre.new_response
        ELSE response = pre.response

\* C18's case: a status other than 304 whose headers a merge would have put
\* into the stored response
C18_Witness ==
    /\ Validated
    /\ pre.new_response.status # 304
    /\ get_updated_headers(pre.response.headers, pre.new_response.headers)
           # pre.response.headers
    /\ response = pre.response
    /\ ret = ObjectRef("new_response")

\* C19: when construct_response_from_cache returns the stored response the
\* request is as it was before the call, and the stored response is as it was
\* on every path.
C19_ConstructFrame ==
    Constructed =>
        /\ ReturnedStoredResponse => request = pre.request
        /\ response = pre.response

\* C19's case: the stored response comes back although it has validators, and
\* the request, with a header of its own, is untouched
C19_Witness ==
    /\ Constructed
    /\ ReturnedStoredResponse
    /\ precondition_headers(pre.response) # <<>>
    /\ pre.request.headers # <<>>
    /\ request = pre.request

====
